---- MODULE Spec2Model ----
(***************************************************************************)
(* Model of check_urbackup.py: the per-client status evaluation            *)
(* (get_status, is_file_old, is_image_old), the fleet fold                 *)
(* (get_global_status) and the top-level try/except block that maps the    *)
(* overall status to the process exit code.                                *)
(*                                                                         *)
(* Strings are sequences of tokens.  A client record is a TLA+ record with *)
(* a field "keys" holding the keys present in the Python dict; a key that  *)
(* is absent carries a fixed filler value which is never read.             *)
(* "None" for an optional integer argument is written 0 (argparse only     *)
(* lets through values >= 1, and the code tests the argument by truth).    *)
(***************************************************************************)
EXTENDS Integers, Sequences, FiniteSets, TLC

\* ---------------------------------------------------------------- bounds
MaxClients == 2
MaxAgeDays == 3
MaxDays == 2

\* ------------------------------------------------------------- data model
BackupStatus == {"OK", "WARNING", "CRITICAL"}

Severity(s) == CASE s = "OK" -> 0 [] s = "WARNING" -> 1 [] s = "CRITICAL" -> 2

RequiredKeys == {"name", "online", "file_ok", "image_ok", "lastbackup", "lastbackup_image"}

OptionalKeys == {"file_disabled", "image_disabled"}

AllKeys == RequiredKeys \cup OptionalKeys

SecondsPerDay == 24 * 60 * 60

PyBool(b) == IF b THEN "True" ELSE "False"

strftime(t) == ToString(t)

RECURSIVE join(_, _)
join(sep, lines) ==
  IF lines = <<>> THEN <<>>
  ELSE IF Len(lines) = 1 THEN lines[1]
  ELSE lines[1] \o sep \o join(sep, Tail(lines))

\* ------------------------------------------------------------ get_status
setdefault(client_data) ==
  LET c1 == IF "file_disabled" \notin client_data.keys
            THEN [client_data EXCEPT !.keys = @ \cup {"file_disabled"}, !.file_disabled = FALSE]
            ELSE client_data
  IN IF "image_disabled" \notin c1.keys
     THEN [c1 EXCEPT !.keys = @ \cup {"image_disabled"}, !.image_disabled = FALSE]
     ELSE c1

file_failed_nodisable(client_data) == ~client_data.file_ok

file_failed(client_data) == ~client_data.file_ok /\ ~client_data.file_disabled

file_str(client_data) ==
  IF ~client_data.file_ok /\ ~client_data.file_disabled THEN "No recent backup"
  ELSE IF client_data.file_ok THEN "OK"
  ELSE "Disabled"

image_failed(client_data) == ~client_data.image_ok /\ ~client_data.image_disabled

image_str(client_data) ==
  IF ~client_data.image_ok /\ ~client_data.image_disabled THEN "No recent backup"
  ELSE IF client_data.image_ok THEN "OK"
  ELSE "Disabled"

\* timedelta.seconds is the seconds component of the normalised difference
\* (0 <= seconds < 86400); the days component is a separate attribute.
timedelta_seconds(diff) == diff % SecondsPerDay

is_file_old(client_data, max_days, t) ==
  LET disabled == client_data.file_disabled
      diff == t - client_data.lastbackup
      diff_hours == (timedelta_seconds(diff) \div 60) \div 60
  IN  (diff_hours > 24 * max_days) /\ ~disabled

is_image_old(client_data, max_days, t) ==
  LET disabled == client_data.image_disabled
      diff == t - client_data.lastbackup_image
      diff_hours == (timedelta_seconds(diff) \div 60) \div 60
  IN  (diff_hours > 24 * max_days) /\ ~disabled

client_status_offline_ok(client_online, any_backup_failed, any_backup_old) ==
  IF any_backup_failed \/ any_backup_old THEN "CRITICAL" ELSE "OK"

client_status(client_online, any_backup_failed, any_backup_old) ==
  IF ~client_online
  THEN IF any_backup_failed \/ any_backup_old THEN "CRITICAL" ELSE "WARNING"
  ELSE IF ~any_backup_failed /\ ~any_backup_old THEN "OK" ELSE "CRITICAL"

client_details(cd, st, f_failed, f_old, i_failed, i_old) ==
  IF st # "OK"
  THEN <<(<<"<b>HostName: ">> \o cd.name \o <<"</b>, Online: ", PyBool(cd.online)>>)>>
       \o (IF f_old THEN << <<"<b>Last Filebackup: ", strftime(cd.lastbackup), "</b>">> >> ELSE <<>>)
       \o (IF f_failed THEN << <<"<b>Status Filebackup: ", file_str(cd), "</b>">> >> ELSE <<>>)
       \o (IF i_old THEN << <<"<b>Last Imagebackup: ", strftime(cd.lastbackup_image), "</b>">> >> ELSE <<>>)
       \o (IF i_failed THEN << <<"<b>Status Imagebackup: ", image_str(cd), "</b>">> >> ELSE <<>>)
  ELSE <<>>

\* The response of get_status, with the locals the claims speak about.
\* raised = TRUE stands for the KeyError of a missing required key.
get_status(client_data, maxfiledays, maximagedays, t) ==
  LET cd == setdefault(client_data)
  IN IF ~(RequiredKeys \subseteq cd.keys)
     THEN [raised |-> TRUE, client_data |-> cd, status |-> "OK", error |-> <<>>,
           file_failed |-> FALSE, image_failed |-> FALSE,
           file_old |-> FALSE, image_old |-> FALSE]
     ELSE LET f_failed == file_failed(cd)
              i_failed == image_failed(cd)
              f_old == IF maxfiledays # 0 THEN is_file_old(cd, maxfiledays, t) ELSE FALSE
              i_old == IF maximagedays # 0 THEN is_image_old(cd, maximagedays, t) ELSE FALSE
              st == client_status(cd.online, f_failed \/ i_failed, f_old \/ i_old)
          IN [raised |-> FALSE, client_data |-> cd, status |-> st,
              error |-> join(<<", ">>, client_details(cd, st, f_failed, f_old, i_failed, i_old)),
              file_failed |-> f_failed, image_failed |-> i_failed,
              file_old |-> f_old, image_old |-> i_old]

NoResponse ==
  [raised |-> FALSE, client_data |-> [keys |-> {}], status |-> "OK", error |-> <<>>,
   file_failed |-> FALSE, image_failed |-> FALSE, file_old |-> FALSE, image_old |-> FALSE]

\* ------------------------------------------------------ get_global_status
\* The regular expressions of the model: literal characters, "." and a
\* postfix "*"; "(" alone is an unterminated group, which re.compile rejects.
re_compile_ok(p) == p # <<>> => (p[1] # "*" /\ \A k \in 1..Len(p) : p[k] # "(")

char_matches(pc_, c) == pc_ = "." \/ pc_ = c

RECURSIVE match_here(_, _, _)
\* anchored = TRUE: the pattern must consume the whole of s (fullmatch);
\* anchored = FALSE: a prefix of s (match).
match_here(p, s, anchored) ==
  IF p = <<>> THEN (anchored => s = <<>>)
  ELSE IF Len(p) >= 2 /\ p[2] = "*"
       THEN \/ match_here(Tail(Tail(p)), s, anchored)
            \/ (s # <<>> /\ char_matches(p[1], s[1]) /\ match_here(p, Tail(s), anchored))
       ELSE s # <<>> /\ char_matches(p[1], s[1]) /\ match_here(Tail(p), Tail(s), anchored)

fullmatch(p, s) == match_here(p, s, TRUE)

search(p, s) == \E k \in 1..(Len(s) + 1) : match_here(p, SubSeq(s, k, Len(s)), FALSE)

participates_search(p, client) == search(p, client.name)

participates(p, client) == fullmatch(p, client.name)

ZeroCount == [k \in BackupStatus \cup {"all"} |-> 0]

fold_status_nocheck(g_status, st) ==
  IF st = "OK" THEN g_status
  ELSE IF st = "WARNING" THEN "WARNING"
  ELSE "CRITICAL"

fold_status(g_status, st) ==
  IF st = "OK" THEN g_status
  ELSE IF st = "WARNING" /\ g_status # "CRITICAL" THEN "WARNING"
  ELSE "CRITICAL"

fold_details_upgrade_only(g_status, g_details, st, error) ==
  IF st = "OK" THEN g_details
  ELSE IF st = "WARNING" /\ g_status # "CRITICAL" THEN g_details \o error \o <<"\n">>
  ELSE IF st = "CRITICAL" THEN g_details \o error \o <<"\n">>
  ELSE g_details

fold_details(g_status, g_details, st, error) ==
  IF st = "OK" THEN g_details
  ELSE IF st = "WARNING" /\ g_status # "CRITICAL" THEN g_details \o error \o <<"\n">>
  ELSE g_details \o error \o <<"\n">>

fold_count(g_count, st) ==
  [g_count EXCEPT ![st] = @ + 1, !["all"] = @ + 1]

\* One iteration of the for loop.  acc carries the locals of
\* get_global_status; the result also carries the (possibly updated) dict
\* of the client and the response of get_status.
loop_body(acc, client, p, maxfiledays, maximagedays, t) ==
  IF "name" \notin client.keys
  THEN [acc EXCEPT !.raised = TRUE, !.client = client]
  ELSE IF ~participates(p, client)
  THEN [acc EXCEPT !.client = client]
  ELSE LET r == get_status(client, maxfiledays, maximagedays, t)
       IN IF r.raised
          THEN [acc EXCEPT !.raised = TRUE, !.client = r.client_data]
          ELSE [raised |-> FALSE,
                global_status |-> fold_status(acc.global_status, r.status),
                global_details |-> fold_details(acc.global_status, acc.global_details,
                                                r.status, r.error),
                global_count |-> fold_count(acc.global_count, r.status),
                client |-> r.client_data,
                resp |-> r]

InitAcc ==
  [raised |-> FALSE, global_status |-> "OK", global_details |-> <<>>,
   global_count |-> ZeroCount, client |-> [keys |-> {}], resp |-> NoResponse]

RECURSIVE fold_from(_, _, _, _, _, _)
fold_from(acc, client_array, p, maxfiledays, maximagedays, t) ==
  IF acc.raised \/ client_array = <<>> THEN acc
  ELSE fold_from(loop_body(acc, Head(client_array), p, maxfiledays, maximagedays, t),
                 Tail(client_array), p, maxfiledays, maximagedays, t)

\* The whole call: the compile error, or the fold over the array.
get_global_status(client_array, p, maxfiledays, maximagedays, t) ==
  IF ~re_compile_ok(p) THEN [InitAcc EXCEPT !.raised = TRUE]
  ELSE fold_from(InitAcc, client_array, p, maxfiledays, maximagedays, t)

\* ------------------------------------------------------------------ state
VARIABLES pc, args, now, clients, i, global_status, global_details, global_count, resp, status, exc, out, exit_code

vars == <<pc, args, now, clients, i, global_status, global_details,
          global_count, resp, status, exc, out, exit_code>>

\* ----------------------------------------------------------------- inputs
Names == {<<"a">>, <<"a", "b">>, <<"b">>}

Patterns == {<<".", "*">>, <<"a">>, <<"a", ".", "*">>, <<"(">>}

NowValues == {(MaxAgeDays + 7) * SecondsPerDay + 7}

Ages == {d * SecondsPerDay + x : d \in 0..MaxAgeDays, x \in {0, 3599, 3600}}

Flag == {"absent", "false", "true"}

FlagKeys(fd, id) ==
  (IF fd = "absent" THEN {} ELSE {"file_disabled"})
  \cup (IF id = "absent" THEN {} ELSE {"image_disabled"})

MkRecord(keys, name, online, file_ok, image_ok, fd, id, lastbackup, lastbackup_image) ==
  [keys |-> keys, name |-> name, online |-> online, file_ok |-> file_ok,
   image_ok |-> image_ok, file_disabled |-> fd, image_disabled |-> id,
   lastbackup |-> lastbackup, lastbackup_image |-> lastbackup_image]

\* Every well-formed record of one client, for the evaluation of a single
\* record.
EvalRecords(t) ==
  { MkRecord(RequiredKeys \cup FlagKeys(fd, id), <<"a">>, online, file_ok, image_ok,
             fd = "true", id = "true", t - fa, t - ia) :
      online \in BOOLEAN, file_ok \in BOOLEAN, image_ok \in BOOLEAN,
      fd \in Flag, id \in Flag, fa \in Ages, ia \in Ages }

\* The records of a fleet snapshot: well-formed ones with and without the
\* optional flags, and records that lack a required key.
FleetWellFormed(t) ==
  { MkRecord(keys, name, online, file_ok, TRUE, FALSE, FALSE,
             t - MaxAgeDays * SecondsPerDay, t - 3600) :
      keys \in {AllKeys, RequiredKeys}, name \in Names,
      online \in BOOLEAN, file_ok \in BOOLEAN }

FleetMalformed(t) ==
  { MkRecord(AllKeys \ {k}, name, FALSE, FALSE, TRUE, FALSE, FALSE,
             t - MaxAgeDays * SecondsPerDay, t - 3600) :
      k \in {"file_ok", "lastbackup"}, name \in Names }
  \cup { MkRecord(AllKeys \ {"name"}, <<>>, TRUE, TRUE, TRUE, FALSE, FALSE,
                  t - MaxAgeDays * SecondsPerDay, t - 3600) }

FleetRecords(t) == FleetWellFormed(t) \cup FleetMalformed(t)

\* Client names are unique within one snapshot of the server.
Snapshots(t) ==
  { s \in UNION { [1..n -> FleetRecords(t)] : n \in 0..MaxClients } :
      \A a, b \in DOMAIN s : (a # b) => (s[a].name # s[b].name) }

EvalArgs == [client : {<<".", "*">>}, maxfiledays : 0..MaxDays, maximagedays : 0..MaxDays]

FleetArgs == [client : Patterns, maxfiledays : {0, 1}, maximagedays : {0}]

\* ------------------------------------------------------------------ main
\* Subscripting a member of the BackupStatus enum raises TypeError.
subscript(obj, key) ==
  IF obj \in BackupStatus \cup {"None"}
  THEN [raised |-> TRUE, value |-> 0]
  ELSE [raised |-> FALSE, value |-> obj[key]]

Init ==
  /\ pc = "fetch"
  /\ args \in FleetArgs
  /\ now \in NowValues
  /\ clients = <<>>
  /\ i = 0
  /\ global_status = "OK"
  /\ global_details = <<>>
  /\ global_count = ZeroCount
  /\ resp = NoResponse
  /\ status = "None"
  /\ exc = "none"
  /\ out = <<>>
  /\ exit_code = -1

\* server.get_status(): the snapshot, or an error of the connection.
server_get_status ==
  /\ pc = "fetch"
  /\ \/ \E s \in Snapshots(now) : clients' = s /\ pc' = "call" /\ exc' = exc
     \/ clients' = clients /\ pc' = "except" /\ exc' = "ConnectionError"
  /\ UNCHANGED <<args, now, i, global_status, global_details, global_count,
                 resp, status, out, exit_code>>

\* Entry of get_global_status: the locals, and re.compile.
get_global_status_enter ==
  /\ pc = "call"
  /\ global_details' = <<>>
  /\ global_status' = "OK"
  /\ global_count' = ZeroCount
  /\ IF re_compile_ok(args.client)
     THEN pc' = "loop" /\ i' = 1 /\ exc' = exc
     ELSE pc' = "except" /\ i' = i /\ exc' = "re.error"
  /\ UNCHANGED <<args, now, clients, resp, status, out, exit_code>>

\* One iteration of "for client in client_array".
get_global_status_loop ==
  /\ pc = "loop"
  /\ i <= Len(clients)
  /\ LET acc == [raised |-> FALSE, global_status |-> global_status,
                 global_details |-> global_details, global_count |-> global_count,
                 client |-> clients[i], resp |-> resp]
         r == loop_body(acc, clients[i], args.client, args.maxfiledays,
                        args.maximagedays, now)
     IN /\ clients' = [clients EXCEPT ![i] = r.client]
        /\ resp' = r.resp
        /\ global_status' = r.global_status
        /\ global_details' = r.global_details
        /\ global_count' = r.global_count
        /\ IF r.raised
           THEN pc' = "except" /\ exc' = "KeyError" /\ i' = i
           ELSE pc' = "loop" /\ exc' = exc /\ i' = i + 1
  /\ UNCHANGED <<args, now, status, out, exit_code>>

\* "return global_status, global_details, global_count" and the unpacking
\* into status, details, count.
get_global_status_return ==
  /\ pc = "loop"
  /\ i > Len(clients)
  /\ status' = global_status
  /\ pc' = "report"
  /\ UNCHANGED <<args, now, clients, i, global_status, global_details,
                 global_count, resp, exc, out, exit_code>>

\* The if/elif chain on status.  The arguments of print are evaluated
\* first; they subscript status.
report ==
  /\ pc = "report"
  /\ LET ok == subscript(status, "OK")
         all == subscript(status, "all")
         warning == subscript(status, "WARNING")
         critical == subscript(status, "CRITICAL")
     IN IF ok.raised
        THEN pc' = "except" /\ exc' = "TypeError" /\ UNCHANGED <<out, exit_code>>
        ELSE /\ pc' = "done"
             /\ exc' = exc
             /\ exit_code' = Severity(status)
             /\ out' = IF status = "CRITICAL"
                       THEN out \o << <<ok.value, all.value, warning.value, critical.value>>,
                                      global_details >>
                       ELSE IF status = "WARNING"
                       THEN out \o << <<ok.value, all.value, warning.value>>, global_details >>
                       ELSE out \o << <<ok.value, all.value>> >>
  /\ UNCHANGED <<args, now, clients, i, global_status, global_details,
                 global_count, resp, status>>

except_exit_critical ==
  /\ pc = "except"
  /\ out' = out \o << <<"Error Occured: ", exc>>, <<"UNKOWN">> >>
  /\ exit_code' = 2
  /\ pc' = "done"
  /\ UNCHANGED <<args, now, clients, i, global_status, global_details,
                 global_count, resp, status, exc>>

\* "except Exception as e", then the two statements after the try block.
except_handler ==
  /\ pc = "except"
  /\ out' = out \o << <<"Error Occured: ", exc>>, <<"UNKOWN">> >>
  /\ exit_code' = 3
  /\ pc' = "done"
  /\ UNCHANGED <<args, now, clients, i, global_status, global_details,
                 global_count, resp, status, exc>>

Next ==
  \/ server_get_status
  \/ get_global_status_enter
  \/ get_global_status_loop
  \/ get_global_status_return
  \/ report
  \/ except_handler

Spec == Init /\ [][Next]_vars

\* ------------------------------------------- evaluation of a single record
InitEval ==
  /\ pc = "evaluate"
  /\ args \in EvalArgs
  /\ now \in NowValues
  /\ clients \in { <<r>> : r \in EvalRecords(now) }
  /\ i = 1
  /\ global_status = "OK"
  /\ global_details = <<>>
  /\ global_count = ZeroCount
  /\ resp = NoResponse
  /\ status = "None"
  /\ exc = "none"
  /\ out = <<>>
  /\ exit_code = -1

evaluate ==
  /\ pc = "evaluate"
  /\ resp' = get_status(clients[1], args.maxfiledays, args.maximagedays, now)
  /\ clients' = <<resp'.client_data>>
  /\ pc' = "evaluated"
  /\ UNCHANGED <<args, now, i, global_status, global_details, global_count,
                 status, exc, out, exit_code>>

NextEval == evaluate

SpecEval == InitEval /\ [][NextEval]_vars

\* ===================================================== properties: get_status
TableVerdict(online, failed_or_old) ==
  IF failed_or_old THEN "CRITICAL" ELSE IF online THEN "OK" ELSE "WARNING"

Contains(s, sub) ==
  \E k \in 0..(Len(s) - Len(sub)) : SubSeq(s, k + 1, k + Len(sub)) = sub

WholeHours(seconds) == seconds \div 3600

\* The staleness of the rule as written: a positive maximum age, and an
\* elapsed time whose whole hours, divided by 24, exceed it.
ElapsedOld(elapsed, max_days) == max_days > 0 /\ WholeHours(elapsed) > 24 * max_days

C2_StalenessRule ==
  pc = "evaluated" =>
    LET cd == clients[1]
    IN /\ (args.maxfiledays > 0 /\ ~cd.file_disabled) =>
            (resp.file_old <=> (WholeHours(now - cd.lastbackup) > 24 * args.maxfiledays))
       /\ (args.maximagedays > 0 /\ ~cd.image_disabled) =>
            (resp.image_old <=> (WholeHours(now - cd.lastbackup_image) > 24 * args.maximagedays))

\* C3: a disabled backup type is evaluated as neither failed nor old, and the
\* verdict of the record is the verdict of the same record with that type
\* marked ok and backed up just now.
C3_DisabledMasked ==
  pc = "evaluated" =>
    LET cd == clients[1]
        fresh_file == [cd EXCEPT !.file_ok = TRUE, !.lastbackup = now]
        fresh_image == [cd EXCEPT !.image_ok = TRUE, !.lastbackup_image = now]
    IN /\ cd.file_disabled =>
            /\ ~resp.file_failed
            /\ ~resp.file_old
            /\ resp.status = get_status(fresh_file, args.maxfiledays, args.maximagedays, now).status
       /\ cd.image_disabled =>
            /\ ~resp.image_failed
            /\ ~resp.image_old
            /\ resp.status = get_status(fresh_image, args.maxfiledays, args.maximagedays, now).status

C3_Witness ==
  /\ pc = "evaluated"
  /\ clients[1].file_disabled
  /\ ~clients[1].file_ok
  /\ args.maxfiledays > 0
  /\ now - clients[1].lastbackup > args.maxfiledays * SecondsPerDay
  /\ clients[1].online
  /\ resp.status = "OK"

\* C10: get_status leaves the record it is given unchanged.
C10_RecordUnchanged == [][clients' = clients]_vars

\* ============================================== properties: get_global_status
MergeTable ==
  [running \in BackupStatus |->
     [new \in BackupStatus |->
        CASE running = "OK" -> new
          [] running = "WARNING" -> (IF new = "CRITICAL" THEN "CRITICAL" ELSE "WARNING")
          [] running = "CRITICAL" -> "CRITICAL"]]

Matching(k) == "name" \in clients[k].keys /\ fullmatch(args.client, clients[k].name)

Verdict(k) == get_status(clients[k], args.maxfiledays, args.maximagedays, now)

\* C5: the running overall status starts at OK and every iteration of the
\* fold moves it as the merge table says; its severity never decreases and
\* CRITICAL is never left.
C5_MonotonicMerge ==
  [][ /\ (pc = "call" /\ pc' = "loop") => global_status' = "OK"
      /\ (pc = "loop" /\ pc' = "loop") =>
           /\ i' = i + 1
           /\ global_status' = IF Matching(i)
                               THEN MergeTable[global_status][Verdict(i).status]
                               ELSE global_status
           /\ Severity(global_status') >= Severity(global_status)
           /\ (global_status = "CRITICAL") => (global_status' = "CRITICAL") ]_vars

C5_Witness ==
  /\ pc = "loop"
  /\ i = 3
  /\ Matching(1) /\ Verdict(1).status = "CRITICAL"
  /\ Matching(2) /\ Verdict(2).status = "WARNING"
  /\ global_status = "CRITICAL"

Perms(n) == { f \in [1..n -> 1..n] : \A a, b \in 1..n : (a # b) => (f[a] # f[b]) }

MatchingVerdicts == { Verdict(k).status : k \in { j \in 1..Len(clients) : Matching(j) } }

HighestSeverity ==
  CHOOSE s \in BackupStatus :
    /\ s \in MatchingVerdicts \cup {"OK"}
    /\ \A v \in MatchingVerdicts : Severity(v) <= Severity(s)

\* C6: get_global_status returns the same overall status and the same counts
\* for every permutation of the client array, and the overall status is the
\* highest severity among the verdicts of the matching records.
C6_OrderIndependent ==
  pc = "report" =>
    /\ status = HighestSeverity
    /\ \A f \in Perms(Len(clients)) :
         LET r == get_global_status([k \in 1..Len(clients) |-> clients[f[k]]],
                                    args.client, args.maxfiledays, args.maximagedays, now)
         IN /\ ~r.raised
            /\ r.global_status = status
            /\ r.global_count = global_count

C6_Witness ==
  /\ pc = "report"
  /\ Len(clients) >= 2
  /\ Matching(1) /\ Verdict(1).status = "CRITICAL"
  /\ Matching(2) /\ Verdict(2).status = "WARNING"
  /\ status = "CRITICAL"
  /\ global_count["WARNING"] = 1

RECURSIVE ExpectedDetails(_)
ExpectedDetails(k) ==
  IF k = 0 THEN <<>>
  ELSE ExpectedDetails(k - 1)
       \o (IF Matching(k) /\ Verdict(k).status # "OK"
           THEN Verdict(k).error \o <<"\n">>
           ELSE <<>>)

\* C7: the aggregate detail text is the concatenation, in input order, of one
\* block (detail string and line break) for every matching client whose
\* verdict is WARNING or CRITICAL, whatever the running status was; OK
\* clients contribute nothing.
C7_DetailBlocks ==
  pc \in {"loop", "report"} => global_details = ExpectedDetails(i - 1)

C7_Witness ==
  /\ pc = "report"
  /\ Len(clients) = 2
  /\ Matching(1) /\ Verdict(1).status = "CRITICAL"
  /\ Matching(2) /\ Verdict(2).status = "WARNING"
  /\ global_details = Verdict(1).error \o <<"\n">> \o Verdict(2).error \o <<"\n">>

\* C8: only the records whose name fully matches the pattern take part: the
\* counts are the numbers of fully matching records (per verdict and in all),
\* the result is the one of the fold over the matching records alone, and
\* with no matching record it is OK, all counts zero, empty detail.
C8_FullMatchFilter ==
  pc = "report" =>
    LET M == { k \in 1..Len(clients) : Matching(k) }
        IsMatch(c) == "name" \in c.keys /\ fullmatch(args.client, c.name)
        only == get_global_status(SelectSeq(clients, IsMatch), <<".", "*">>,
                                  args.maxfiledays, args.maximagedays, now)
    IN /\ global_count["all"] = Cardinality(M)
       /\ \A s \in BackupStatus :
            global_count[s] = Cardinality({ k \in M : Verdict(k).status = s })
       /\ global_count["all"] =
            global_count["OK"] + global_count["WARNING"] + global_count["CRITICAL"]
       /\ ~only.raised
       /\ status = only.global_status
       /\ global_details = only.global_details
       /\ global_count = only.global_count
       /\ (M = {}) => (status = "OK" /\ global_count = ZeroCount /\ global_details = <<>>)

C8_Witness ==
  /\ pc = "report"
  /\ args.client = <<"a">>
  /\ Len(clients) = 2
  /\ clients[1].name = <<"a", "b">> /\ ~clients[1].online
  /\ clients[2].name = <<"a">>
  /\ global_count["all"] = 1
  /\ status = "OK"

\* ============================================================ properties: main
\* C4: when the snapshot was fetched and aggregated without error the process
\* prints the counts and exits with the code of the overall status.
C4_ExitCodeOfStatus ==
  (pc = "done" /\ status \in BackupStatus) =>
    /\ exit_code = Severity(status)
    /\ out # <<>>
    /\ out[1][1] = global_count["OK"]
    /\ out[1][2] = global_count["all"]

\* C9: an error of the fetch or of the evaluation ends in the unknown
\* verdict: exit code 3, and the output holds the error and "UNKOWN" only,
\* no overall status or counts of a partially folded fleet.
C9_UnknownOnError ==
  (pc = "done" /\ exc \in {"ConnectionError", "re.error", "KeyError"}) =>
    /\ exit_code = 3
    /\ exit_code \notin {0, 1, 2}
    /\ out = << <<"Error Occured: ", exc>>, <<"UNKOWN">> >>
    /\ status = "None"

C9_Witness ==
  /\ pc = "done"
  /\ exc = "KeyError"
  /\ global_status = "CRITICAL"
  /\ global_count["all"] >= 1
  /\ exit_code = 3

====
